---- MODULE Spec2Model ----
(***************************************************************************)
(* A model of src/bot.py: the /resim slash command of a Discord bot that   *)
(* forwards a prompt to the Stability text-to-image API.                   *)
(*                                                                         *)
(* Every invocation of slash_resim is an asyncio task.  Tasks interleave   *)
(* only at their await points, so each action below is the code that runs  *)
(* from one await to the next.  The Discord calls (send_message, defer,    *)
(* followup.send) are taken to succeed; the message is recorded when the   *)
(* call is made and the task resumes in a later step.                      *)
(*                                                                         *)
(* Conventions: a Python string is a sequence of one-character strings;    *)
(* the value None is the sequence None below; an optional integer is <<>>  *)
(* (None) or <<n>>; time is counted in ticks of 1/TicksPerSec second.      *)
(***************************************************************************)
EXTENDS Integers, Sequences, FiniteSets, TLC

\* ------------------------------------------------------------- bounds
NumReqs == 3
NumUsers == 2
TicksPerSec == 2
MaxArts == 3

\* The longest list of entries in the responses of SpecShapes.
MaxEntries == 2

\* ------------------------------------------------ program configuration
MAX_CONCURRENT == 2
USER_COOLDOWN == 10

Reqs == 1..NumReqs
Users == 1..NumUsers

\* The cooldown window in ticks.
Window == USER_COOLDOWN * TicksPerSec

\* time.time() is seconds since 1970: far more than USER_COOLDOWN, so a user
\* without an entry (last = 0) is never in cooldown.  StartTime is the
\* smallest clock reading with that property.
StartTime == Window

\* ------------------------------------------------------------ strings
None == <<"None">>
NoInt == <<>>

Truthy(s) == s # None /\ s # <<>>

\* x or y
Or(x, y) == IF Truthy(x) THEN x ELSE y

UpperAlpha ==
  <<"A","B","C","D","E","F","G","H","I","J","K","L","M",
    "N","O","P","Q","R","S","T","U","V","W","X","Y","Z">>

LowerAlpha ==
  <<"a","b","c","d","e","f","g","h","i","j","k","l","m",
    "n","o","p","q","r","s","t","u","v","w","x","y","z">>

LowerChar(c) ==
  IF \E i \in 1..26 : UpperAlpha[i] = c
  THEN LowerAlpha[CHOOSE i \in 1..26 : UpperAlpha[i] = c]
  ELSE c

UpperChar(c) ==
  IF \E i \in 1..26 : LowerAlpha[i] = c
  THEN UpperAlpha[CHOOSE i \in 1..26 : LowerAlpha[i] = c]
  ELSE c

\* str.lower(), str.upper()
lower(s) == [i \in 1..Len(s) |-> LowerChar(s[i])]
upper(s) == [i \in 1..Len(s) |-> UpperChar(s[i])]

\* w in p
Contains(p, w) ==
  \E q \in {p} : \E i \in 0..(Len(q) - Len(w)) : SubSeq(q, i + 1, i + Len(w)) = w

\* BANNED_KEYWORDS is shipped empty, "a placeholder for admin to expand";
\* the model runs a deployment that has added two lower-case entries, as
\* the examples in the source comment are.
BANNED_KEYWORDS == << <<"b","a","n">>, <<"n","s","f","w">> >>

prompt_blocked(prompt) ==
  LET p == lower(prompt)
  IN  \E k \in 1..Len(BANNED_KEYWORDS) : Contains(p, BANNED_KEYWORDS[k])

\* Faulty variant: the negative prompt is not looked at.
RequestBlocked_PromptOnly(prompt, negative_prompt) == prompt_blocked(prompt)

\* prompt_blocked(prompt) or (negative_prompt and prompt_blocked(negative_prompt))
RequestBlocked(prompt, negative_prompt) ==
  prompt_blocked(prompt)
    \/ (Truthy(negative_prompt) /\ prompt_blocked(negative_prompt))

\* ------------------------------------------------------------- base64
B64Alphabet ==
  <<"A","B","C","D","E","F","G","H","I","J","K","L","M",
    "N","O","P","Q","R","S","T","U","V","W","X","Y","Z",
    "a","b","c","d","e","f","g","h","i","j","k","l","m",
    "n","o","p","q","r","s","t","u","v","w","x","y","z",
    "0","1","2","3","4","5","6","7","8","9","+","/">>

B64Val(c) ==
  IF c = "=" THEN 0 ELSE (CHOOSE i \in 1..64 : B64Alphabet[i] = c) - 1

\* The bytes of one group of four characters.
B64Group(g) ==
  LET n == B64Val(g[1]) * 262144 + B64Val(g[2]) * 4096
             + B64Val(g[3]) * 64 + B64Val(g[4])
      all == << n \div 65536, (n \div 256) % 256, n % 256 >>
  IN  IF g[3] = "=" THEN SubSeq(all, 1, 1)
      ELSE IF g[4] = "=" THEN SubSeq(all, 1, 2)
      ELSE all

RECURSIVE B64Bytes(_)
B64Bytes(s) ==
  IF s = <<>> THEN <<>>
  ELSE B64Group(SubSeq(s, 1, 4)) \o B64Bytes(SubSeq(s, 5, Len(s)))

\* base64.b64decode(b64), for text over the alphabet with '=' only at the
\* end: binascii.Error ("Incorrect padding") unless the length is a
\* multiple of four.
B64DecodeFails(s) == Len(s) % 4 # 0

\* ------------------------------------------------------ parameters
DEFAULT_MODEL == "stable-diffusion-xl-1024-v1-0"
NoModel == "<None>"

Min(a, b) == IF a < b THEN a ELSE b
Max(a, b) == IF a > b THEN a ELSE b

\* The sizes slash_resim accepts; any other becomes 512.
AllowedSizes == {256, 512, 768, 1024}

\* A size passed on as given.
Size_Keep(x) == x

Size(x) == IF x \notin AllowedSizes THEN 512 ELSE x

\* Faulty variant: the options go on as they were given.
Normalize_Skip(a) == a

\* Lines 215-221.  cfg_scale is a float, counted here in tenths.
Normalize(a) ==
  [a EXCEPT !.steps = Max(10, Min(80, @)),
            !.cfg_scale = Max(10, Min(300, @)),
            !.width = Size(@),
            !.height = Size(@),
            !.samples = Max(1, Min(4, @))]

\* if seed: payload["seed"] = int(seed)
SeedTruthy(seed) == seed # NoInt /\ seed[1] # 0

\* The JSON body of the outbound request; seed = NoInt is a body without
\* the field.
Payload(a) ==
  [text_prompts |->
     <<[text |-> a.prompt, weight |-> 1]>>
       \o (IF Truthy(a.negative_prompt)
           THEN <<[text |-> a.negative_prompt, weight |-> -1]>>
           ELSE <<>>),
   cfg_scale |-> a.cfg_scale,
   height |-> a.height,
   width |-> a.width,
   samples |-> a.samples,
   steps |-> a.steps,
   seed |-> IF SeedTruthy(a.seed) THEN a.seed ELSE NoInt]

\* ------------------------------------------------- response handling
\* An exception: its class and the parts of its message.  No message of the
\* program names the position of an artifact: index is NoInt throughout.
Exc(type, prefix, status, detail) ==
  [type |-> type, prefix |-> prefix, status |-> status, detail |-> detail,
   index |-> NoInt]

NoExc == <<>>

\* artifacts = data.get("artifacts") or data.get("result") or []
\* (a missing key and an empty list are both <<>>), then one level of
\* nesting is removed when the first entry is a list.
Artifacts(data) ==
  LET found == IF data.artifacts # <<>> THEN data.artifacts ELSE data.result
  IN  IF found # <<>> /\ found[1].isList THEN found[1].items ELSE found

\* Faulty variant: the image data is looked for under "base64" alone.
ArtB64_Base64Only(art) == art.base64

\* art.get("base64") or art.get("b64_json") or art.get("b64")
ArtB64(art) == Or(Or(art.base64, art.b64_json), art.b64)

ArtFinish(art) == Or(Or(art.finishReason, art.finish_reason), art.finishReason)

\* The loop of lines 144-155 over the entries from position i on, with the
\* results collected so far: the list returned, or the exception raised.
RECURSIVE Collect(_, _, _)
Collect(arts, i, acc) ==
  IF i > Len(arts) THEN [exc |-> NoExc, results |-> acc]
  ELSE IF arts[i].isList
    THEN [exc |-> <<Exc("AttributeError", "'list' object has no attribute 'get'",
                        NoInt, "")>>,
          results |-> <<>>]
  ELSE IF ~Truthy(ArtB64(arts[i])) THEN Collect(arts, i + 1, acc)
  ELSE IF B64DecodeFails(ArtB64(arts[i]))
    THEN [exc |-> <<Exc("Exception", "Failed to decode base64 image: ",
                        NoInt, "Incorrect padding")>>,
          results |-> <<>>]
  ELSE Collect(arts, i + 1,
               Append(acc, [bytes |-> B64Bytes(ArtB64(arts[i])),
                            seed |-> arts[i].seed,
                            finish_reason |-> ArtFinish(arts[i])]))

\* Faulty variant: only a 5xx status counts as a failure.
CallExc_ServerErrorsOnly(resp) ==
  IF resp.net # "ok" THEN <<Exc(resp.net, "", NoInt, "")>>
  ELSE IF resp.status >= 500
    THEN <<Exc("Exception", "Stability API error ", <<resp.status>>, resp.text)>>
  ELSE IF ~resp.json THEN <<Exc("JSONDecodeError", "", NoInt, resp.text)>>
  ELSE NoExc

\* What the try block of lines 129-135 raises for a response, if anything.
CallExc(resp) ==
  IF resp.net # "ok" THEN <<Exc(resp.net, "", NoInt, "")>>
  ELSE IF resp.status # 200
    THEN <<Exc("Exception", "Stability API error ", <<resp.status>>, resp.text)>>
  ELSE IF ~resp.json THEN <<Exc("JSONDecodeError", "", NoInt, resp.text)>>
  ELSE NoExc

\* call_stability_generate from the response on: the list returned, or the
\* exception raised.
Generate(resp) ==
  IF CallExc(resp) # NoExc THEN [exc |-> CallExc(resp), results |-> <<>>]
  ELSE Collect(Artifacts(resp.data), 1, <<>>)

FILTER == <<"F","I","L","T","E","R">>
CONTENT == <<"C","O","N","T","E","N","T">>
UNKNOWN == <<"U","N","K","N","O","W","N">>

\* Line 243.
FinishTag(r) ==
  IF Truthy(r.finish_reason) THEN upper(Or(r.finish_reason, <<>>)) ELSE UNKNOWN

\* Faulty variant: the tag is compared without upper().
IsFiltered_Sensitive(r) ==
  Contains(Or(r.finish_reason, <<>>), FILTER)
    \/ Contains(Or(r.finish_reason, <<>>), CONTENT)

\* Line 244.
IsFiltered(r) == Contains(FinishTag(r), FILTER) \/ Contains(FinishTag(r), CONTENT)

\* ---------------------------------------------------------------- state
VARIABLES
  clock,         \* time.time(), in ticks
  last_request,  \* the dict last_request: user id -> time of the last admitted request
  sem,           \* generation_semaphore._value
  waiters,       \* generation_semaphore._waiters: the tasks inside acquire(), oldest first
  pc,            \* per task: the await it is suspended at
  args,          \* per task: the command's parameters (the locals of slash_resim)
  results,       \* per task: the list call_stability_generate returned
  idx,           \* per task: the position of the delivery loop
  sent_files,    \* per task: the positions delivered as a file
  responses,     \* per task: what interaction.response has sent
  followups,     \* per task: what interaction.followup has sent, in order
  posted,        \* per task: the requests sent to the generation service
  received,      \* per task: what came back for them
  writes,        \* per task: the calls of log_usage made
  usages,        \* the rows of the table usages, in insertion order
  requested,     \* per task: the command as the dispatcher passed it, and when
  logged         \* what the program has written to a log or a metric

vars == <<clock, last_request, sem, waiters, pc, args, results, idx,
          sent_files, responses, followups, posted, received, writes, usages,
          requested, logged>>

NoArgs == <<>>

Init ==
  /\ clock = StartTime
  /\ last_request = <<>>
  /\ sem = MAX_CONCURRENT
  /\ waiters = <<>>
  /\ pc = [r \in Reqs |-> "idle"]
  /\ args = [r \in Reqs |-> NoArgs]
  /\ results = [r \in Reqs |-> <<>>]
  /\ idx = [r \in Reqs |-> 0]
  /\ sent_files = [r \in Reqs |-> <<>>]
  /\ responses = [r \in Reqs |-> <<>>]
  /\ followups = [r \in Reqs |-> <<>>]
  /\ posted = [r \in Reqs |-> <<>>]
  /\ received = [r \in Reqs |-> <<>>]
  /\ writes = [r \in Reqs |-> 0]
  /\ usages = <<>>
  /\ requested = [r \in Reqs |-> <<>>]
  /\ logged = <<>>

\* ------------------------------------------------------------- cooldown
\* Faulty variant: the lookup finds nothing.
Last_Unknown(uid) == 0

\* last_request.get(uid, 0)
Last(uid) == IF uid \in DOMAIN last_request THEN last_request[uid] ELSE 0

\* Faulty variant: <= for <.
InCooldown_Inclusive(now, last) == now - last <= Window

\* now - last < USER_COOLDOWN
InCooldown(now, last) == now - last < Window

\* int(USER_COOLDOWN - (now - last)): the seconds left, truncated.
Remaining(now, last) == (Window - (now - last)) \div TicksPerSec

\* Faulty variant: the write does not reach the dict.
Record_Lost(uid, now) == last_request

\* last_request[uid] = now
Record(uid, now) ==
  [u \in DOMAIN last_request \cup {uid} |-> IF u = uid THEN now ELSE last_request[u]]

\* ------------------------------------------------------------ semaphore
\* Faulty variant: acquire() never waits.
Locked_Never == FALSE

\* Semaphore.locked(): no permit left, or somebody is already queued.
Locked == sem = 0 \/ waiters # <<>>

\* The queued tasks whose future is still pending.
Pending(p) == {i \in 1..Len(waiters) : p[waiters[i]] = "acquire"}

\* Semaphore._wake_up_next() with the value v: the first pending waiter takes
\* a permit and its future is resolved.
WakeNext(v, p) ==
  IF Pending(p) = {} THEN [sem |-> v, pc |-> p, woke |-> FALSE]
  ELSE LET i == CHOOSE i \in Pending(p) : \A j \in Pending(p) : i <= j
       IN  [sem |-> v - 1, pc |-> [p EXCEPT ![waiters[i]] = "granted"], woke |-> TRUE]

\* "while self._value > 0: if not self._wake_up_next(): break"
RECURSIVE WakeAll(_, _)
WakeAll(v, p) ==
  IF v > 0 /\ WakeNext(v, p).woke
  THEN WakeAll(WakeNext(v, p).sem, WakeNext(v, p).pc)
  ELSE [sem |-> v, pc |-> p]

\* Faulty variant: the permit is put back and no waiter is woken.
Release_NoWake(v, p) == [sem |-> v + 1, pc |-> p, woke |-> FALSE]

\* Semaphore.release()
Release(v, p) == WakeNext(v + 1, p)

\* Faulty variant: the release follows the try block instead of being its
\* finally clause.
ReleasesOnExit_SuccessOnly(raised) == ~raised

\* The finally clause of line 136 runs however the try block ends.
ReleasesOnExit(raised) == TRUE

Remove(seq, x) == SelectSeq(seq, LAMBDA y : y # x)

\* -------------------------------------------------------------- messages
Msg(kind, i, exc, finish, seed, bytes) ==
  [kind |-> kind, idx |-> i, exc |-> exc, finish |-> finish, seed |-> seed,
   bytes |-> bytes]

\* Lines 243-256 for the artifact at position i: the message sent for it.
ItemMsg(res, i) ==
  IF IsFiltered(res[i])
  THEN Msg("filter_notice", i, NoExc, FinishTag(res[i]), NoInt, <<>>)
  ELSE Msg("image", i, NoExc, FinishTag(res[i]), res[i].seed, res[i].bytes)

\* The row with the seed as the request body carries it.
Row_BodySeed(a, now) ==
  [user_id |-> a.uid, prompt |-> a.prompt, negative_prompt |-> a.negative_prompt,
   model |-> a.model, seed |-> Payload(a).seed, width |-> a.width,
   height |-> a.height, steps |-> a.steps, samples |-> a.samples,
   cfg_scale |-> a.cfg_scale, timestamp |-> now]

\* The row log_usage inserts.
Row(a, now) ==
  [user_id |-> a.uid, prompt |-> a.prompt, negative_prompt |-> a.negative_prompt,
   model |-> a.model, seed |-> a.seed, width |-> a.width, height |-> a.height,
   steps |-> a.steps, samples |-> a.samples, cfg_scale |-> a.cfg_scale,
   timestamp |-> now]

\* --------------------------------------------------------------- actions
\* Wall-clock time passes.
Tick(d, maxClock) ==
  /\ clock + d <= maxClock
  /\ clock' = clock + d
  /\ UNCHANGED <<last_request, sem, waiters, pc, args, results, idx, sent_files,
                 responses, followups, posted, received, writes, usages,
                 requested, logged>>

\* Faulty variant: the time is recorded before the check.
LastAfter_Always(uid, now) == Record(uid, now)

\* Lines 200-204: the dict after the cooldown step.
LastAfter(uid, now) ==
  IF InCooldown(now, Last(uid)) THEN last_request ELSE Record(uid, now)

\* Lines 198-213: a command arrives and runs to its first await.  Tasks are
\* numbered in the order they arrive.
Start(r, a) ==
  /\ pc[r] = "idle"
  /\ \A q \in Reqs : q < r => pc[q] # "idle"
  /\ LET now == clock
         last == Last(a.uid)
         b == [a EXCEPT !.model = IF @ = NoModel THEN DEFAULT_MODEL ELSE @]
     IN  /\ last_request' = LastAfter(a.uid, now)
         /\ IF InCooldown(now, last)
            THEN /\ responses' = [responses EXCEPT ![r] =
                      Append(@, [kind |-> "cooldown", wait |-> Remaining(now, last)])]
                 /\ pc' = [pc EXCEPT ![r] = "send_cooldown"]
                 /\ args' = [args EXCEPT ![r] = a]
            ELSE IF RequestBlocked(a.prompt, a.negative_prompt)
            THEN /\ responses' = [responses EXCEPT ![r] =
                      Append(@, [kind |-> "blocked", wait |-> 0])]
                 /\ pc' = [pc EXCEPT ![r] = "send_blocked"]
                 /\ args' = [args EXCEPT ![r] = b]
            ELSE /\ responses' = [responses EXCEPT ![r] =
                      Append(@, [kind |-> "defer", wait |-> 0])]
                 /\ pc' = [pc EXCEPT ![r] = "defer"]
                 /\ args' = [args EXCEPT ![r] = b]
  /\ requested' = [requested EXCEPT ![r] = <<[cmd |-> a, at |-> clock]>>]
  /\ UNCHANGED <<clock, sem, waiters, results, idx, sent_files, followups,
                 posted, received, writes, usages, logged>>

\* session.post(url, json=payload): the request leaves.
Post(r, a) ==
  [posted EXCEPT ![r] = Append(@, [model |-> a.model, body |-> Payload(a)])]

\* The event loop resumes a task whose awaited call has completed:
\*   defer (line 213): lines 215-221 and call_stability_generate up to the
\*     acquire of line 128, and on to the post when a permit is free;
\*   granted: acquire() returns to a task that was queued, and it posts;
\*   a message sent before a return (lines 202, 210, 234, 238, 265): the
\*     coroutine ends and its locals go with it.
Resume(r) ==
  /\ pc[r] \in {"defer", "granted", "send_cooldown", "send_blocked",
                "send_error", "send_empty", "send_final"}
  /\ CASE pc[r] = "defer" ->
            LET a == Normalize(args[r])
            IN  /\ args' = [args EXCEPT ![r] = a]
                /\ IF ~Locked
                   THEN /\ sem' = sem - 1
                        /\ waiters' = waiters
                        /\ pc' = [pc EXCEPT ![r] = "http"]
                        /\ posted' = Post(r, a)
                   ELSE /\ sem' = sem
                        /\ waiters' = Append(waiters, r)
                        /\ pc' = [pc EXCEPT ![r] = "acquire"]
                        /\ posted' = posted
       [] pc[r] = "granted" ->
            LET w == WakeAll(sem, pc)
            IN  /\ waiters' = Remove(waiters, r)
                /\ sem' = w.sem
                /\ pc' = [w.pc EXCEPT ![r] = "http"]
                /\ posted' = Post(r, args[r])
                /\ args' = args
       [] OTHER ->
            /\ pc' = [pc EXCEPT ![r] = "done"]
            /\ args' = [args EXCEPT ![r] = NoArgs]
            /\ UNCHANGED <<sem, waiters, posted>>
  /\ results' = [results EXCEPT ![r] = IF pc'[r] = "done" THEN <<>> ELSE @]
  /\ idx' = [idx EXCEPT ![r] = IF pc'[r] = "done" THEN 0 ELSE @]
  /\ sent_files' = [sent_files EXCEPT ![r] = IF pc'[r] = "done" THEN <<>> ELSE @]
  /\ UNCHANGED <<clock, last_request, responses, followups, received, writes,
                 usages, requested, logged>>

\* Lines 130-137 and 139-156, then lines 233-245/256 of the caller: the
\* response (or the network failure) arrives, the permit is released, the
\* artifacts are decoded, and slash_resim sends its next message.
HttpDone(r, resp) ==
  /\ pc[r] = "http"
  /\ LET rel == IF ReleasesOnExit(CallExc(resp) # NoExc)
                THEN Release(sem, pc)
                ELSE [sem |-> sem, pc |-> pc]
     IN  \E out \in {Generate(resp)} :   \* the value, computed once
         /\ sem' = rel.sem
         /\ received' = [received EXCEPT ![r] = Append(@, resp)]
         /\ IF out.exc # NoExc
            THEN /\ followups' = [followups EXCEPT ![r] =
                      Append(@, Msg("error", 0, out.exc, <<>>, NoInt, <<>>))]
                 /\ pc' = [rel.pc EXCEPT ![r] = "send_error"]
                 /\ UNCHANGED <<results, idx>>
            ELSE IF out.results = <<>>
            THEN /\ followups' = [followups EXCEPT ![r] =
                      Append(@, Msg("empty", 0, NoExc, <<>>, NoInt, <<>>))]
                 /\ pc' = [rel.pc EXCEPT ![r] = "send_empty"]
                 /\ UNCHANGED <<results, idx>>
            ELSE /\ followups' = [followups EXCEPT ![r] =
                      Append(@, ItemMsg(out.results, 1))]
                 /\ pc' = [rel.pc EXCEPT ![r] = "send_item"]
                 /\ results' = [results EXCEPT ![r] = out.results]
                 /\ idx' = [idx EXCEPT ![r] = 1]
  /\ UNCHANGED <<clock, last_request, waiters, args, sent_files, responses,
                 posted, writes, usages, requested, logged>>

\* Faulty variant: the list tested is results, not sent_files.
NothingSent_Results(files, res) == res = <<>>

\* if not sent_files (line 264)
NothingSent(files, res) == files = <<>>

\* Lines 246/257 and on: the message for one artifact has gone; the loop
\* takes the next artifact, or ends, and then lines 259-265 run: log_usage
\* (which raises when dbOk is false, and the exception is dropped by
\* "except Exception: pass", which writes nothing anywhere) and the last
\* notice; without one the coroutine ends here.
AfterSend(r, dbOk) ==
  /\ pc[r] = "send_item"
  /\ LET i == idx[r]
         files == IF IsFiltered(results[r][i])
                  THEN sent_files[r]
                  ELSE Append(sent_files[r], i)
     IN  IF i < Len(results[r])
         THEN /\ followups' = [followups EXCEPT ![r] =
                   Append(@, ItemMsg(results[r], i + 1))]
              /\ idx' = [idx EXCEPT ![r] = i + 1]
              /\ sent_files' = [sent_files EXCEPT ![r] = files]
              /\ UNCHANGED <<pc, args, results, writes, usages>>
         ELSE /\ writes' = [writes EXCEPT ![r] = @ + 1]
              /\ usages' = IF dbOk THEN Append(usages, Row(args[r], clock))
                           ELSE usages
              /\ IF NothingSent(files, results[r])
                 THEN /\ followups' = [followups EXCEPT ![r] =
                           Append(@, Msg("nothing_delivered", 0, NoExc, <<>>,
                                         NoInt, <<>>))]
                      /\ pc' = [pc EXCEPT ![r] = "send_final"]
                      /\ sent_files' = [sent_files EXCEPT ![r] = files]
                      /\ UNCHANGED <<args, results, idx>>
                 ELSE /\ followups' = followups
                      /\ pc' = [pc EXCEPT ![r] = "done"]
                      /\ args' = [args EXCEPT ![r] = NoArgs]
                      /\ results' = [results EXCEPT ![r] = <<>>]
                      /\ idx' = [idx EXCEPT ![r] = 0]
                      /\ sent_files' = [sent_files EXCEPT ![r] = <<>>]
  /\ UNCHANGED <<clock, last_request, sem, waiters, responses, posted, received,
                 requested, logged>>

\* One step of the program, for the tasks, commands, responses, outcomes of
\* the database write and delays given.
Step(R, A, Resp, Db, D, maxClock) ==
  \/ \E d \in D : Tick(d, maxClock)
  \/ \E r \in R, a \in A : Start(r, a)
  \/ \E r \in R : Resume(r)
  \/ \E r \in R, resp \in Resp : HttpDone(r, resp)
  \/ \E r \in R, dbOk \in Db : AfterSend(r, dbOk)

\* --------------------------------------------------------------- inputs
P_fox == <<"f","o","x">>
P_ban == <<"a"," ","B","a","N">>
P_nsfw == <<"n","s","f","w">>

Cmd(uid, prompt, negative_prompt, seed) ==
  [uid |-> uid, prompt |-> prompt, negative_prompt |-> negative_prompt,
   steps |-> 30, cfg_scale |-> 70, width |-> 512, height |-> 512,
   samples |-> 1, seed |-> seed, model |-> NoModel]

SUCCESS == <<"S","U","C","C","E","S","S">>
CONTENT_FILTERED ==
  <<"C","O","N","T","E","N","T","_","F","I","L","T","E","R","E","D">>
filtered == <<"f","i","l","t","e","r","e","d">>

B64_A == <<"Q","Q","=","=">>
B64_hi == <<"a","G","k","=">>
B64_bad == <<"Q","Q","=">>

\* One entry of the artifacts array.
Art(b64, finish, seed) ==
  [isList |-> FALSE, items |-> <<>>, base64 |-> b64, b64_json |-> None,
   b64 |-> None, finishReason |-> finish, finish_reason |-> None, seed |-> seed]

\* A response with status 200 and a JSON body holding these artifacts.
Ok(arts) ==
  [net |-> "ok", status |-> 200, text |-> "json", json |-> TRUE,
   data |-> [artifacts |-> arts, result |-> <<>>]]

NoData == [artifacts |-> <<>>, result |-> <<>>]

HttpError(status) ==
  [net |-> "ok", status |-> status, text |-> "error body", json |-> TRUE,
   data |-> NoData]

Malformed ==
  [net |-> "ok", status |-> 200, text |-> "<html>", json |-> FALSE, data |-> NoData]

NetFailure(kind) ==
  [net |-> kind, status |-> 0, text |-> "", json |-> FALSE, data |-> NoData]

Good == Art(B64_A, SUCCESS, <<7>>)
Flagged == Art(B64_hi, CONTENT_FILTERED, <<8>>)
FlaggedLower == Art(B64_hi, filtered, NoInt)
Untagged == Art(B64_hi, None, NoInt)
Undecodable == Art(B64_bad, SUCCESS, <<9>>)
Imageless == Art(None, SUCCESS, <<9>>)

\* ------------------------------------------------------- specifications
\* Spec: NumReqs commands of one user, each a cooldown window or more after
\* the one before, so that all are admitted; the call ends in each of the
\* ways its try block can end, or with an artifact that does not decode,
\* and the database write succeeds or fails.
GateCmds == {Cmd(1, P_fox, None, NoInt)}

GateOutcomes ==
  {Ok(<<Good>>), Ok(<<Undecodable>>), HttpError(400), Malformed,
   NetFailure("TimeoutError")}

Next ==
  Step(Reqs, GateCmds, GateOutcomes, BOOLEAN, {Window},
       StartTime + (NumReqs - 1) * Window)

Spec == Init /\ [][Next]_vars

\* FairSpec: the commands of Spec, each call answered with an image, with
\* status 400, or ended by the timeout of line 131.
Timeout == NetFailure("TimeoutError")

LiveOutcomes == {Ok(<<Good>>), HttpError(400), Timeout}

NextLive ==
  Step(Reqs, GateCmds, LiveOutcomes, BOOLEAN, {Window},
       StartTime + (NumReqs - 1) * Window)

\* The event loop runs every task that is ready: a coroutine whose await
\* has completed is resumed.  A call to the service that has not returned
\* is ended by its timeout (timeout=timeout, line 131).  No command has to
\* arrive and no time has to pass.
Fairness ==
  \A r \in Reqs :
    /\ WF_vars(Resume(r))
    /\ WF_vars(HttpDone(r, Timeout))
    /\ WF_vars(\E dbOk \in BOOLEAN : AfterSend(r, dbOk))

FairSpec == Init /\ [][NextLive]_vars /\ Fairness

\* SpecCooldown: two commands of NumUsers users, clean or blocked, arriving
\* at once, a tick less than a cooldown window, or a whole window or more,
\* after one another.
CooldownCmds == {Cmd(u, p, None, NoInt) : u \in Users, p \in {P_fox, P_ban}}

NextCooldown ==
  Step({1, 2}, CooldownCmds, {Ok(<<Good>>), HttpError(400)}, BOOLEAN,
       {Window - 1, Window}, StartTime + 2 * Window)

SpecCooldown == Init /\ [][NextCooldown]_vars

\* SpecOne: one command, with a clean or a blocked prompt and negative
\* prompt, and every response: a failure, or up to MaxArts artifacts, each
\* delivered, filtered, untagged, undecodable or without image data.
OneCmds ==
  {Cmd(1, p, n, NoInt) : p \in {P_fox, P_ban}, n \in {None, P_fox, P_nsfw}}

ArtKinds == {Good, Flagged, FlaggedLower, Untagged, Undecodable, Imageless}

OneOutcomes ==
  {Ok(arts) : arts \in UNION {[1..n -> ArtKinds] : n \in 0..MaxArts}}
    \cup {HttpError(400), HttpError(500), Malformed, NetFailure("TimeoutError")}

NextOne ==
  Step({1}, OneCmds, OneOutcomes, BOOLEAN, {Window}, StartTime + Window)

SpecOne == Init /\ [][NextOne]_vars

\* One command whose options run below, inside and above what the handler
\* accepts (lines 215-221), with no seed, seed 0 and another seed, answered
\* with artifacts whose seeds are not the one asked for.
ParamCmds ==
  {[Cmd(1, P_fox, None, seed) EXCEPT
      !.steps = st, !.cfg_scale = cfg, !.width = w, !.height = h, !.samples = n] :
     seed \in {NoInt, <<0>>, <<5>>}, st \in {9, 30, 81}, cfg \in {9, 70, 301},
     w \in {256, 999}, h \in {0, 1024}, n \in {0, 1, 5}}

ParamOutcomes ==
  {Ok(<<Good>>), Ok(<<Flagged, Good>>), Ok(<<>>), HttpError(400)}

NextParams ==
  Step({1}, ParamCmds, ParamOutcomes, BOOLEAN, {Window}, StartTime + Window)

SpecParams == Init /\ [][NextParams]_vars

\* SpecOrder: two commands of one user, clean, blocked, or with options
\* out of range, a tick less than a cooldown window or a whole window
\* apart.
OrderCmds ==
  {Cmd(1, P_fox, None, NoInt), Cmd(1, P_ban, None, NoInt),
   [Cmd(1, P_fox, None, NoInt) EXCEPT !.steps = 81, !.width = 999]}

OrderOutcomes == {Ok(<<Good>>), Ok(<<Flagged>>), Ok(<<>>), HttpError(400)}

NextOrder ==
  Step({1, 2}, OrderCmds, OrderOutcomes, BOOLEAN, {Window - 1, Window},
       StartTime + 2 * Window)

SpecOrder == Init /\ [][NextOrder]_vars

\* An entry that is itself a list: the extra layer some responses have.
ListEntry(items) ==
  [isList |-> TRUE, items |-> items, base64 |-> None, b64_json |-> None,
   b64 |-> None, finishReason |-> None, finish_reason |-> None, seed |-> NoInt]

\* The entry with its image data under the field key.
Keyed(art, key) ==
  [art EXCEPT !.base64 = IF key = "base64" THEN art.base64 ELSE None,
              !.b64_json = IF key = "b64_json" THEN art.base64 ELSE None,
              !.b64 = IF key = "b64" THEN art.base64 ELSE None]

\* A response with status 200 whose body holds the entries under the field
\* named, directly or inside one more list, their image data under key.
Shaped(arts, field, nested, key) ==
  LET es == [i \in 1..Len(arts) |-> Keyed(arts[i], key)]
      body == IF nested THEN <<ListEntry(es)>> ELSE es
  IN  [Ok(<<>>) EXCEPT
         !.data = IF field = "artifacts"
                  THEN [artifacts |-> body, result |-> <<>>]
                  ELSE [artifacts |-> <<>>, result |-> body]]

ShapeKinds == {Good, Flagged, Imageless, Undecodable}

ShapeLists == UNION {[1..n -> ShapeKinds] : n \in 0..MaxEntries}

ShapeFields == {"artifacts", "result"}

ShapeKeys == {"base64", "b64_json", "b64"}

ShapeOutcomes ==
  {Shaped(arts, f, n, k) :
     arts \in ShapeLists, f \in ShapeFields, n \in BOOLEAN, k \in ShapeKeys}

NextShapes ==
  Step({1}, GateCmds, ShapeOutcomes, BOOLEAN, {Window}, StartTime + Window)

SpecShapes == Init /\ [][NextShapes]_vars

\* ----------------------------------------------------------------- claims
\* The tasks that hold a permit: acquire() has taken it for them (granted)
\* or has returned (http), and the finally clause has not yet run.
Holders == {r \in Reqs : pc[r] \in {"granted", "http"}}

\* C1: however many commands run at once, the number of them between the
\* acquire and the release of call_stability_generate never exceeds
\* MAX_CONCURRENT.
C1_GateBound == Cardinality(Holders) <= MAX_CONCURRENT

\* MAX_CONCURRENT calls are in flight and a further task is suspended in
\* acquire().
C1_Witness ==
  /\ Cardinality({r \in Reqs : pc[r] = "http"}) = MAX_CONCURRENT
  /\ \E r \in Reqs : pc[r] = "acquire"

\* C2: every acquire is matched by exactly one release on every exit path,
\* so the permits available plus the permits held always make
\* MAX_CONCURRENT: with nobody inside the call all of them are available,
\* and there are never more.
C2_NoPermitLeak ==
  /\ sem + Cardinality(Holders) = MAX_CONCURRENT
  /\ sem <= MAX_CONCURRENT
  /\ Holders = {} => sem = MAX_CONCURRENT

FailedWith(r, type) ==
  /\ followups[r] # <<>>
  /\ followups[r][1].kind = "error"
  /\ followups[r][1].exc[1].type = type

\* Three calls have ended, by a status other than 200, by a body that is
\* not JSON and by a timeout, and all permits are back.
C2_Witness ==
  /\ \E r \in Reqs : FailedWith(r, "Exception") /\ received[r][1].status = 400
  /\ \E r \in Reqs : FailedWith(r, "JSONDecodeError")
  /\ \E r \in Reqs : FailedWith(r, "TimeoutError")
  /\ Holders = {}
  /\ sem = MAX_CONCURRENT

\* The step in which the command of task r arrives.
Arrives(r) == pc[r] = "idle" /\ pc'[r] # "idle"

\* C3: a command that arrives less than USER_COOLDOWN seconds after its
\* user's last admitted command is rejected at the cooldown step; one that
\* arrives USER_COOLDOWN seconds or more after it, or whose user has no
\* recorded command, is admitted, and its arrival time becomes the user's
\* last-request time.
C3_Cooldown ==
  [][\A r \in Reqs :
       Arrives(r) =>
         LET uid == args'[r].uid
         IN  IF uid \in DOMAIN last_request
                  /\ clock - last_request[uid] < USER_COOLDOWN * TicksPerSec
             THEN /\ pc'[r] = "send_cooldown"
                  /\ responses'[r][1].kind = "cooldown"
             ELSE /\ pc'[r] \in {"send_blocked", "defer"}
                  /\ responses'[r][1].kind # "cooldown"
                  /\ uid \in DOMAIN last_request'
                  /\ last_request'[uid] = clock]_vars

\* A command was rejected one tick before its user's window ended.
C3_Witness ==
  \E r \in Reqs :
    /\ pc[r] = "send_cooldown"
    /\ clock - last_request[args[r].uid] = USER_COOLDOWN * TicksPerSec - 1

\* ceil(seconds left), for a time in ticks.
CeilSeconds(ticks) == (ticks + TicksPerSec - 1) \div TicksPerSec

\* C4: the wait reported with a cooldown rejection is
\* ceil(cooldown - elapsed), and more than 0, whatever the elapsed time in
\* [0, cooldown), whole seconds or not.
C4_RemainingIsCeiling ==
  [][\A r \in Reqs :
       (Arrives(r) /\ pc'[r] = "send_cooldown") =>
         LET elapsed == clock - Last(args'[r].uid)
             wait == responses'[r][1].wait
         IN  /\ wait = CeilSeconds(USER_COOLDOWN * TicksPerSec - elapsed)
             /\ wait > 0]_vars

\* C5: a command rejected by the cooldown check leaves last_request as it
\* was, for every user.
C5_RejectionKeepsState ==
  [][\A r \in Reqs :
       (Arrives(r) /\ pc'[r] = "send_cooldown") => last_request' = last_request]_vars

\* A command was rejected some time after its user's admitted one, and the
\* recorded time is still the earlier one.
C5_Witness ==
  \E r \in Reqs :
    /\ pc[r] = "send_cooldown"
    /\ last_request[args[r].uid] < clock

\* A keyword of the block-list occurs in the text, whatever the case.
HasKeyword(text) ==
  \E k \in 1..Len(BANNED_KEYWORDS) :
    Contains(lower(text), lower(BANNED_KEYWORDS[k]))

Blocked(r) == responses[r] # <<>> /\ responses[r][1].kind = "blocked"

\* C6: a command whose prompt or negative prompt contains a blocked keyword
\* is rejected, with a message to the user, in the step in which it
\* arrives, and the task never takes a permit, sends a request to the
\* service or writes a usage row.
C6_BlockedBeforeAnyCall ==
  /\ [][\A r \in Reqs :
          (Arrives(r)
             /\ (HasKeyword(args'[r].prompt)
                   \/ (args'[r].negative_prompt # None
                         /\ HasKeyword(args'[r].negative_prompt)))) =>
            /\ pc'[r] \in {"send_cooldown", "send_blocked"}
            /\ Len(responses'[r]) = 1
            /\ responses'[r][1].kind \in {"cooldown", "blocked"}]_vars
  /\ [](\A r \in Reqs :
          Blocked(r) =>
            /\ pc[r] \in {"send_blocked", "done"}
            /\ r \notin Holders
            /\ \A i \in 1..Len(waiters) : waiters[i] # r
            /\ posted[r] = <<>>
            /\ received[r] = <<>>
            /\ writes[r] = 0)

\* A command with a clean prompt was rejected for its negative prompt.
C6_Witness ==
  \E r \in Reqs :
    /\ pc[r] = "send_blocked"
    /\ Blocked(r)
    /\ args[r].prompt = P_fox
    /\ args[r].negative_prompt = P_nsfw

\* The service answered with a status other than 200.
UpstreamFailure(resp) == resp.net = "ok" /\ resp.status # 200

\* The positions of the artifacts whose image data is not base64.
Undecodables(resp) ==
  {i \in 1..Len(Artifacts(resp.data)) :
     LET b == ArtB64(Artifacts(resp.data)[i])
     IN  Truthy(b) /\ Len(b) % 4 # 0}

\* The service answered 200 with an artifact that does not decode.
DecodeFailure(resp) ==
  resp.net = "ok" /\ resp.status = 200 /\ resp.json /\ Undecodables(resp) # {}

\* C7: when the generation call fails, by a status other than 200 or by an
\* artifact that does not decode, the task ends having sent one error
\* message that refers to the failure (the status code, for an upstream
\* error), no artifact and no filter notice, and having written no usage
\* row.
C7_FailureIsReported ==
  \A r \in Reqs :
    (received[r] # <<>>
       /\ (UpstreamFailure(received[r][1]) \/ DecodeFailure(received[r][1]))) =>
      /\ pc[r] \in {"send_error", "done"}
      /\ Len(followups[r]) = 1
      /\ followups[r][1].kind = "error"
      /\ UpstreamFailure(received[r][1]) =>
           followups[r][1].exc[1].status = <<received[r][1].status>>
      /\ DecodeFailure(received[r][1]) =>
           followups[r][1].exc[1].prefix = "Failed to decode base64 image: "
      /\ writes[r] = 0

\* A command answered with status 400 has ended.
C7_Witness ==
  \E r \in Reqs :
    /\ pc[r] = "done"
    /\ received[r] # <<>>
    /\ received[r][1].status = 400
    /\ followups[r][1].kind = "error"

\* C8: the failures of the generation call differ in kind: a status other
\* than 200 raises an error that carries the status and the body, an
\* artifact that does not decode raises an error of another kind that names
\* the artifact, and slash_resim never sees the two as the same kind.
C8_ErrorKindsDiffer ==
  \A r \in Reqs : \A q \in Reqs :
    (/\ received[r] # <<>> /\ UpstreamFailure(received[r][1])
     /\ received[q] # <<>> /\ DecodeFailure(received[q][1])) =>
      /\ followups[r][1].exc[1].type # followups[q][1].exc[1].type
      /\ followups[r][1].exc[1].status = <<received[r][1].status>>
      /\ followups[r][1].exc[1].detail = received[r][1].text
      /\ followups[q][1].exc[1].index # NoInt
      /\ followups[q][1].exc[1].index[1] \in Undecodables(received[q][1])

\* The finish-reason contains FILTER or CONTENT, whatever the case.
FilterTag(finish) ==
  /\ Truthy(finish)
  /\ (Contains(upper(finish), FILTER) \/ Contains(upper(finish), CONTENT))

\* The list call_stability_generate returned to task r.
Returned(r) == Generate(received[r][1]).results

\* Task r is in or past its delivery loop.
Delivering(r) ==
  /\ received[r] # <<>>
  /\ Generate(received[r][1]).exc = NoExc
  /\ Returned(r) # <<>>

LoopOver(r) == Delivering(r) /\ pc[r] \in {"send_final", "done"}

\* C9: in the delivery loop an artifact whose finish-reason contains FILTER
\* or CONTENT, in any case, is never sent as an image and gets a notice of
\* its own, and every other artifact of the response, before or after it,
\* is sent.
C9_FilteredSkippedOthersSent ==
  \A r \in Reqs :
    Delivering(r) =>
      /\ \A i \in 1..Len(Returned(r)) :
           i <= Len(followups[r]) =>
             /\ followups[r][i].idx = i
             /\ followups[r][i].kind =
                  IF FilterTag(Returned(r)[i].finish_reason)
                  THEN "filter_notice" ELSE "image"
             /\ followups[r][i].kind = "image" =>
                  followups[r][i].bytes = Returned(r)[i].bytes
      /\ LoopOver(r) => Len(followups[r]) >= Len(Returned(r))

Kinds(r) == [i \in 1..Len(followups[r]) |-> followups[r][i].kind]

\* Three artifacts, the second filtered: the first and the third were sent.
C9_Witness ==
  \E r \in Reqs :
    /\ pc[r] = "done"
    /\ Kinds(r) = <<"image", "filter_notice", "image">>

\* C10: when the list returned is not empty and every artifact in it has a
\* filtering finish-reason, the user gets one filter notice per artifact
\* and then the notice that nothing was delivered, no image, and log_usage
\* is called once.
C10_AllFiltered ==
  \A r \in Reqs :
    (LoopOver(r)
       /\ \A i \in 1..Len(Returned(r)) : FilterTag(Returned(r)[i].finish_reason)) =>
      /\ Len(followups[r]) = Len(Returned(r)) + 1
      /\ \A i \in 1..Len(Returned(r)) : followups[r][i].kind = "filter_notice"
      /\ followups[r][Len(followups[r])].kind = "nothing_delivered"
      /\ writes[r] = 1

\* Two artifacts, both filtered.
C10_Witness ==
  \E r \in Reqs :
    /\ pc[r] = "done"
    /\ Kinds(r) = <<"filter_notice", "filter_notice", "nothing_delivered">>
    /\ writes[r] = 1

\* x brought into lo..hi.
Clamped(lo, hi, x) == IF x < lo THEN lo ELSE IF x > hi THEN hi ELSE x

\* An image size the service takes, and 512 for any other.
Sized(x) == IF x \in {256, 512, 768, 1024} THEN x ELSE 512

\* The command of task r as it arrived.
Asked(r) == requested[r][1].cmd

\* Task r left at one of the four early exits.
EarlyExit(r) ==
  /\ responses[r] # <<>>
  /\ \/ responses[r][1].kind \in {"cooldown", "blocked"}
     \/ /\ received[r] # <<>>
        /\ (Generate(received[r][1]).exc # NoExc \/ Returned(r) = <<>>)

RECURSIVE Calls(_)
\* The calls of log_usage made by the tasks 1..n.
Calls(n) == IF n = 0 THEN 0 ELSE writes[n] + Calls(n - 1)

\* The calls of log_usage that raised: they left no row.
FailedWrites == Calls(NumReqs) - Len(usages)

\* C12: when the write of the usage row fails, the user is sent nothing
\* about it, the task goes on to its last notice and ends as it would
\* have, and the failure is written to a log or a metric.
C12_WriteFailureSurfaced ==
  FailedWrites > 0 =>
    /\ \A r \in Reqs :
         writes[r] = 1 =>
           /\ pc[r] \in {"send_final", "done"}
           /\ \A i \in 1..Len(followups[r]) :
                followups[r][i].kind \in {"image", "filter_notice", "nothing_delivered"}
           /\ (\A i \in 1..Len(followups[r]) : followups[r][i].kind # "image") =>
                followups[r][Len(followups[r])].kind = "nothing_delivered"
    /\ Len(logged) >= FailedWrites

\* The options in the body task r sent to the service.
Sent(r) == posted[r][1].body

\* C13: the steps, cfg_scale, samples, width and height sent to the
\* service are in 10..80, 1.0..30.0, 1..4 and {256, 512, 768, 1024}
\* whatever the command asked for; a width or height outside that set is
\* sent as 512; and normalizing the values sent gives the same values.
C13_NormalizedOptions ==
  \A r \in Reqs :
    posted[r] # <<>> =>
      LET b == Sent(r)
          q == Asked(r)
          again == Normalize([q EXCEPT !.steps = b.steps,
                                       !.cfg_scale = b.cfg_scale,
                                       !.width = b.width, !.height = b.height,
                                       !.samples = b.samples])
      IN  /\ b.steps \in 10..80
          /\ b.cfg_scale \in 10..300
          /\ b.samples \in 1..4
          /\ b.width \in {256, 512, 768, 1024}
          /\ b.height \in {256, 512, 768, 1024}
          /\ q.width \notin {256, 512, 768, 1024} => b.width = 512
          /\ q.height \notin {256, 512, 768, 1024} => b.height = 512
          /\ q.width \in {256, 512, 768, 1024} => b.width = q.width
          /\ q.height \in {256, 512, 768, 1024} => b.height = q.height
          /\ q.steps \in 10..80 => b.steps = q.steps
          /\ q.cfg_scale \in 10..300 => b.cfg_scale = q.cfg_scale
          /\ q.samples \in 1..4 => b.samples = q.samples
          /\ again.steps = b.steps
          /\ again.cfg_scale = b.cfg_scale
          /\ again.width = b.width
          /\ again.height = b.height
          /\ again.samples = b.samples

\* A command asking for 81 steps, cfg_scale 0.9, 999 by 0 and 5 samples
\* went out as 80 steps, 1.0, 512 by 512 and 4 samples.
C13_Witness ==
  \E r \in Reqs :
    /\ posted[r] # <<>>
    /\ Asked(r).steps = 81 /\ Sent(r).steps = 80
    /\ Asked(r).cfg_scale = 9 /\ Sent(r).cfg_scale = 10
    /\ Asked(r).width = 999 /\ Sent(r).width = 512
    /\ Asked(r).height = 0 /\ Sent(r).height = 512
    /\ Asked(r).samples = 5 /\ Sent(r).samples = 4

\* The entries of a list that carry image data, in order.
WithImage(arts) == SelectSeq(arts, LAMBDA a : a.base64 # None)

\* C14: a response decodes to the same artifacts, in the same order,
\* whether its entries come directly or inside one more list, under
\* "artifacts" or under "result", and with the image data under "base64",
\* "b64_json" or "b64"; an entry without image data is left out and
\* raises nothing.
C14_ShapeIndependent ==
  \A r \in Reqs :
    received[r] # <<>> =>
      \A arts \in ShapeLists, f \in ShapeFields, n \in BOOLEAN, k \in ShapeKeys :
        received[r][1] = Shaped(arts, f, n, k) =>
          LET flat == Generate(Ok(arts))
          IN  /\ Generate(received[r][1]) = flat
              /\ pc[r] = "send_item" => results[r] = flat.results
              /\ flat.exc # NoExc => followups[r][1].kind = "error"
              /\ (flat.exc = NoExc /\ flat.results = <<>>) =>
                   followups[r][1].kind = "empty"
              /\ (\A i \in 1..Len(arts) : arts[i] # Undecodable) =>
                   /\ flat.exc = NoExc
                   /\ Len(flat.results) = Len(WithImage(arts))
                   /\ \A i \in 1..Len(flat.results) :
                        /\ flat.results[i].seed = WithImage(arts)[i].seed
                        /\ flat.results[i].bytes = B64Bytes(WithImage(arts)[i].base64)
                        /\ i <= Len(followups[r])
                             /\ followups[r][i].kind = "image" =>
                             followups[r][i].bytes = flat.results[i].bytes

\* A response holding, under "result" and inside one more list, an entry
\* without image data and then an image under "b64_json": the image was
\* delivered.
C14_Witness ==
  \E r \in Reqs :
    /\ received[r] = <<Shaped(<<Imageless, Good>>, "result", TRUE, "b64_json")>>
    /\ pc[r] = "done"
    /\ Kinds(r) = <<"image">>
    /\ followups[r][1].seed = <<7>>

\* C15: with the event loop fair to every ready task and every call to
\* the service returning or failing in the end, a task suspended in
\* acquire() gets its permit and posts its request, and every command that
\* has arrived ends.
C15_Progress ==
  \A r \in Reqs :
    /\ (pc[r] = "acquire") ~> (pc[r] = "http")
    /\ (pc[r] # "idle") ~> (pc[r] = "done")

\* The gate was full, a task waited, and a release has handed it the
\* permit.
C15_Witness ==
  \E r \in Reqs :
    /\ pc[r] = "granted"
    /\ \E i \in 1..Len(waiters) : waiters[i] = r
    /\ \E q \in Reqs : received[q] # <<>>

\* The deferred acknowledgement has been sent to the user of task r.
Acked(r) == responses[r] # <<>> /\ responses[r][1].kind = "defer"

\* Options as the handler means to send them.
InRange(a) ==
  /\ a.steps \in 10..80
  /\ a.cfg_scale \in 10..300
  /\ a.width \in {256, 512, 768, 1024}
  /\ a.height \in {256, 512, 768, 1024}
  /\ a.samples \in 1..4

\* Task r is at or past the generation call.
Generating(r) == pc[r] \in {"acquire", "granted", "http"} \/ posted[r] # <<>>

\* The arrival of task r was written to last_request: the cooldown check
\* had been passed when the content check was made.
ArrivalRecorded(r) ==
  /\ Asked(r).uid \in DOMAIN last_request
  /\ last_request[Asked(r).uid] >= requested[r][1].at

\* The stages a task may move to from each stage.
After(stage) ==
  CASE stage = "idle" -> {"send_cooldown", "send_blocked", "defer"}
    [] stage = "defer" -> {"acquire", "http"}
    [] stage = "acquire" -> {"granted"}
    [] stage = "granted" -> {"http"}
    [] stage = "http" -> {"send_error", "send_empty", "send_item"}
    [] stage = "send_item" -> {"send_final", "done"}
    [] stage \in {"send_cooldown", "send_blocked", "send_error", "send_empty",
                  "send_final"} -> {"done"}
    [] OTHER -> {}

\* What holds of the later stages, whichever of normalization and
\* acknowledgement comes first.
StagesInOrder(r) ==
  /\ Blocked(r) => ArrivalRecorded(r)
  /\ Generating(r) => Acked(r)
  /\ (Generating(r) /\ args[r] # NoArgs) => InRange(args[r])
  /\ posted[r] # <<>> => InRange(Sent(r))
  /\ received[r] # <<>> => posted[r] # <<>>
  /\ writes[r] = 1 => (Delivering(r) /\ pc[r] \in {"send_final", "done"})
  /\ (pc[r] = "done" /\ Delivering(r)) => writes[r] = 1

\* C16 as stated: a task goes through cooldown check, content check,
\* normalization, acknowledgement, generation, delivery and recording in
\* that order; in particular its options are normalized by the time the
\* acknowledgement has been sent, and the content check follows the
\* cooldown check.
C16_NormalizedThenAcknowledged ==
  \A r \in Reqs :
    /\ (Acked(r) /\ args[r] # NoArgs) => InRange(args[r])
    /\ StagesInOrder(r)

\* C16, amended: a task goes through cooldown check, content check,
\* acknowledgement, normalization, generation, delivery and recording in
\* that order; the acknowledgement has been sent when the options are
\* normalized, the options are normalized before the generation call, and
\* the content check follows the cooldown check.
C16_AcknowledgedThenNormalized ==
  /\ [](\A r \in Reqs : StagesInOrder(r))
  /\ [][\A r \in Reqs :
          /\ pc'[r] # pc[r] => pc'[r] \in After(pc[r])
          /\ (args[r] # NoArgs /\ args'[r] # NoArgs /\ args'[r] # args[r]) =>
               /\ Acked(r)
               /\ pc[r] = "defer"
               /\ ~InRange(args[r])
               /\ InRange(args'[r])]_vars

\* The acknowledgement is out and the options still ask for 81 steps and a
\* width of 999.
C16_Witness ==
  \E r \in Reqs :
    /\ Acked(r)
    /\ pc[r] = "defer"
    /\ args[r].steps = 81
    /\ args[r].width = 999

\* Task r passed the cooldown step.
Admitted(r) == responses[r] # <<>> /\ responses[r][1].kind # "cooldown"

\* The time task r arrived.
At(r) == requested[r][1].at

\* C17: the cooldown step reads and writes last_request without an await
\* in between, so of the commands of one user that arrive less than
\* USER_COOLDOWN seconds apart, at the same instant included, in whatever
\* order their tasks run, at most one passes the cooldown step.
C17_OnePerWindow ==
  \A r, q \in Reqs :
    (r # q /\ Admitted(r) /\ Admitted(q) /\ Asked(r).uid = Asked(q).uid) =>
      (At(r) - At(q) >= Window \/ At(q) - At(r) >= Window)

\* Two commands of one user arrived at the same instant: one is rejected
\* and the other is admitted and has not ended.
C17_Witness ==
  \E r, q \in Reqs :
    /\ r # q
    /\ pc[r] \in {"defer", "http"}
    /\ responses[q] # <<>>
    /\ responses[q][1].kind = "cooldown"
    /\ Asked(r).uid = Asked(q).uid
    /\ At(r) = At(q)

\* The generation call of task r raised.
GenFailed(r) == received[r] # <<>> /\ Generate(received[r][1]).exc # NoExc

\* C18: a command that passed the cooldown step and was then rejected for
\* its content, or whose generation call failed, has recorded its arrival
\* all the same: the next command of the user that arrives less than
\* USER_COOLDOWN seconds after it is rejected at the cooldown step, though
\* the earlier one delivered nothing and wrote no usage row.
C18_RejectedStillCounts ==
  [][\A r, q \in Reqs :
       (Arrives(r) /\ q # r /\ (Blocked(q) \/ GenFailed(q))
          /\ Asked(q).uid = args'[r].uid
          /\ clock - At(q) < USER_COOLDOWN * TicksPerSec) =>
         /\ pc'[r] = "send_cooldown"
         /\ responses'[r][1].kind = "cooldown"
         /\ writes[q] = 0
         /\ \A i \in 1..Len(followups[q]) : followups[q][i].kind = "error"
         /\ Blocked(q) => posted[q] = <<>>]_vars

\* A clean command is rejected at the cooldown step a tick before the
\* window of the user's earlier command, which was blocked, ends.
C18_Witness ==
  \E r, q \in Reqs :
    /\ r # q
    /\ Blocked(q)
    /\ pc[q] = "done"
    /\ responses[r] # <<>>
    /\ responses[r][1].kind = "cooldown"
    /\ Asked(r).uid = Asked(q).uid
    /\ Asked(r).prompt = P_fox
    /\ At(r) = At(q) + Window - 1

\* C19: a task sends exactly one initial response, which is the cooldown
\* rejection, the content rejection or the deferred acknowledgement;
\* follow-up messages are sent only after the acknowledgement; and a task
\* that was acknowledged and has ended has sent at least one follow-up
\* that is an error, the empty-result notice, an image or the notice that
\* nothing was delivered.
C19_OneResponseThenFollowups ==
  \A r \in Reqs :
    /\ pc[r] = "idle" => (responses[r] = <<>> /\ followups[r] = <<>>)
    /\ pc[r] # "idle" =>
         /\ Len(responses[r]) = 1
         /\ responses[r][1].kind \in {"cooldown", "blocked", "defer"}
    /\ followups[r] # <<>> => Acked(r)
    /\ (pc[r] = "done" /\ Acked(r)) =>
         \E i \in 1..Len(followups[r]) :
           followups[r][i].kind \in {"error", "empty", "image", "nothing_delivered"}

\* One command was acknowledged, had its only artifact filtered and ended
\* with the notice that nothing was delivered; the next was rejected at
\* the cooldown step and sent nothing more.
C19_Witness ==
  \E r, q \in Reqs :
    /\ pc[r] = "done" /\ Acked(r)
    /\ Kinds(r) = <<"filter_notice", "nothing_delivered">>
    /\ pc[q] = "done"
    /\ Len(responses[q]) = 1
    /\ responses[q][1].kind = "cooldown"
    /\ followups[q] = <<>>

====
